---- MODULE Spec2Model ----
(***************************************************************************)
(* A model of weighted_maximum_matching/algorithms.py: the classes Vertex, *)
(* Edge and MatchingGraph.                                                 *)
(*                                                                         *)
(* Python objects live in two stores: `vertices` holds every Vertex object *)
(* and `edgeObjs` every Edge object, in creation order.  A reference to an *)
(* object is its position in its store, so two references are the same     *)
(* object exactly when they are the same number; None is 0.                *)
(*                                                                         *)
(* A behaviour is one of two uses of the module:                           *)
(*   - a call MatchingGraph(x_set, y_set, according_to_x_set=flag), whose  *)
(*     constructor runs _initialize_vertices, _build_edges and match, is   *)
(*     then read through its properties, and may be followed by a second   *)
(*     construction on the same inputs with the other flag value;          *)
(*   - direct use of Vertex and Edge: two vertices are created, edges are  *)
(*     constructed between them, compared and given weight.                *)
(***************************************************************************)
EXTENDS Integers, Sequences, FiniteSets

VARIABLES
    x_set,               \* MatchingGraph.x_set
    y_set,               \* MatchingGraph.y_set
    according_to_x_set,  \* MatchingGraph.according_to_x_set
    vertices,            \* store of Vertex objects
    edgeObjs,            \* store of Edge objects
    x_vertices,          \* MatchingGraph.x_vertices: references to vertices
    y_vertices,          \* MatchingGraph.y_vertices: references to vertices
    edges,               \* MatchingGraph.edges: references to edges
    matches,             \* MatchingGraph.matches: references to edges
    pc,                  \* position in MatchingGraph.__init__, or "direct"
    i,                   \* _build_edges: position of vertex_a in a_vertices
    j,                   \* _build_edges: position of vertex_b in b_vertices
    k,                   \* match: position of vertex in vertices
    err,                 \* the exception that ended the constructor
    evaluated,           \* the calls of _check_match so far, in order
    result,              \* what the caller's last call returned or raised
    other                \* outcome of the earlier construction, if any

vars == <<x_set, y_set, according_to_x_set, vertices, edgeObjs, x_vertices,
          y_vertices, edges, matches, pc, i, j, k, err, evaluated, result,
          other>>

(*************************** bounds of the model ***************************)
MaxLen == 2          \* longest x_set / y_set
NItems == 2          \* number of distinct items
MaxWeightArg == 5    \* largest weight argument passed to Edge(...)
MaxEdgeObjs == 2     \* Edge objects constructed in direct use
MaxWeight == 2       \* largest weight add_weight may reach

Items == 1..NItems
WeightArgs == 0..MaxWeightArg
AddAmounts == {-1, 1}

RECURSIVE SeqsUpTo(_)
SeqsUpTo(n) ==
    IF n = 0 THEN {<<>>}
    ELSE LET S == SeqsUpTo(n - 1)
         IN S \cup {Append(s, x) : s \in {t \in S : Len(t) = n - 1}, x \in Items}

ItemSeqs == SeqsUpTo(MaxLen)

(****************************** Python values ******************************)
None == 0

Return(v) == [exc |-> "none", val |-> v]

Raise(e) == [exc |-> e, val |-> None]

\* list[b] for a two-element list and a bool b: False is 0, True is 1.
BoolIndex(list, b) == list[IF b THEN 2 ELSE 1]

Range(s) == {s[n] : n \in 1..Len(s)}

\* The names a bare name in algorithms.py can resolve to: the module's
\* top-level bindings and the builtins the file uses.
ModuleGlobals == {"Vertex", "Edge", "MatchingGraph"}

Builtins == {"isinstance", "max", "set", "len", "any", "enumerate",
             "AttributeError", "ValueError"}

NameResolves(name) == name \in ModuleGlobals \cup Builtins

(********************************* Vertex **********************************)
Vertex__init__(item) == [item |-> item, neigbors |-> <<>>, edges |-> <<>>]

Vertex__eq__(vs, self, other_vertex) ==
    vs[self].item = vs[other_vertex].item

add_neighbor(vs, self, other_vertex, edge) ==
    [vs EXCEPT ![self].neigbors = Append(@, other_vertex),
               ![self].edges = Append(@, edge)]

(********************************** Edge ***********************************)
_get_parallels(vs, es, self, other_edge) ==
    LET parallel == /\ Vertex__eq__(vs, es[self].vertex_1, es[other_edge].vertex_1)
                    /\ Vertex__eq__(vs, es[self].vertex_2, es[other_edge].vertex_2)
        reverse == /\ Vertex__eq__(vs, es[self].vertex_1, es[other_edge].vertex_2)
                   /\ Vertex__eq__(vs, es[self].vertex_2, es[other_edge].vertex_1)
    IN <<parallel, reverse>>

isinstance_Edge(es, obj) == obj \in 1..Len(es)

Edge__eq__(vs, es, self, other_edge) ==
    IF ~isinstance_Edge(es, other_edge) THEN Return(FALSE)
    ELSE IF ~NameResolves("_get_parallels") THEN Raise("NameError")
    ELSE LET p == _get_parallels(vs, es, self, other_edge)
         IN Return(es[self].weight = es[other_edge].weight /\ (p[1] \/ p[2]))

Edge__lt__(vs, es, self, other_edge) ==
    IF ~isinstance_Edge(es, other_edge) THEN Return(FALSE)
    ELSE IF ~NameResolves("_get_parallels") THEN Raise("NameError")
    ELSE LET p == _get_parallels(vs, es, self, other_edge)
         IN Return(es[self].weight < es[other_edge].weight /\ (p[1] \/ p[2]))

InitialWeight_stored(weight) == weight

\* self.weight = 1, whatever the weight argument is.
InitialWeight(weight) == 1

Edge__init__(vs, es, vertex_1, vertex_2, weight) ==
    LET self == Len(es) + 1
        obj == [vertex_1 |-> vertex_1, vertex_2 |-> vertex_2,
                weight |-> InitialWeight(weight)]
        vs1 == add_neighbor(vs, vertex_1, vertex_2, self)
        vs2 == add_neighbor(vs1, vertex_2, vertex_1, self)
    IN [vertices |-> vs2, edgeObjs |-> Append(es, obj), self |-> self]

add_weight(es, self, weight) ==
    [es EXCEPT ![self].weight = @ + weight]

\* max(self.edges) for a non-empty list: the running maximum is replaced by
\* an item when item > maximum, which Python evaluates as the reflected
\* maximum.__lt__(item) because Edge defines no __gt__.
RECURSIVE PyMax(_, _, _, _, _)
PyMax(vs, es, list, n, maxitem) ==
    IF n > Len(list) THEN Return(maxitem)
    ELSE LET c == Edge__lt__(vs, es, maxitem, list[n])
         IN IF c.exc # "none" THEN Raise(c.exc)
            ELSE IF c.val THEN PyMax(vs, es, list, n + 1, list[n])
            ELSE PyMax(vs, es, list, n + 1, maxitem)

heaviest_edge(vs, es, self) ==
    IF Len(vs[self].edges) = 0 THEN Return(None)
    ELSE PyMax(vs, es, vs[self].edges, 2, vs[self].edges[1])

(****************** MatchingGraph: the matching predicates *****************)
get_x_set_condition_values(x_vertex) == [value |-> x_vertex]

get_y_set_condition_values(y_vertex) == [value |-> y_vertex]

get_matching_arguments(x_vertex, y_vertex) ==
    <<get_x_set_condition_values(x_vertex),
      get_y_set_condition_values(y_vertex)>>

get_conditions(vs, x_conditions, y_conditions) ==
    <<Vertex__eq__(vs, x_conditions.value, y_conditions.value)>>

assess_match_always(conditions) == TRUE

assess_match(conditions) == \E n \in 1..Len(conditions) : conditions[n]

assess_compatibility(conditions) ==
    Cardinality({n \in 1..Len(conditions) : conditions[n]})

_check_match(vs, x_vertex, y_vertex) ==
    LET args == get_matching_arguments(x_vertex, y_vertex)
        conditions == get_conditions(vs, args[1], args[2])
    IN <<assess_match(conditions), assess_compatibility(conditions)>>

(******************** MatchingGraph: edge construction ********************)
\* a_vertices, b_vertices = [(y_vertices, x_vertices),
\*                           (x_vertices, y_vertices)][adherence]
a_vertices == BoolIndex(<<<<y_vertices, x_vertices>>,
                          <<x_vertices, y_vertices>>>>, according_to_x_set)[1]

b_vertices == BoolIndex(<<<<y_vertices, x_vertices>>,
                          <<x_vertices, y_vertices>>>>, according_to_x_set)[2]

\* vertices = [(vertex_b, vertex_a), (vertex_a, vertex_b)][adherence]
PairOf(vertex_a, vertex_b) ==
    BoolIndex(<<<<vertex_b, vertex_a>>, <<vertex_a, vertex_b>>>>,
              according_to_x_set)

build_pair_unrecorded(vs, es, edgs, x_vertex, y_vertex) ==
    LET cm == _check_match(vs, x_vertex, y_vertex)
    IN IF cm[1]
       THEN LET e == Edge__init__(vs, es, x_vertex, y_vertex, cm[2])
            IN [vertices |-> e.vertices, edgeObjs |-> e.edgeObjs, edges |-> edgs]
       ELSE [vertices |-> vs, edgeObjs |-> es, edges |-> edgs]

\* The body of the inner loop of _build_edges for one pair of vertices.
build_pair(vs, es, edgs, x_vertex, y_vertex) ==
    LET cm == _check_match(vs, x_vertex, y_vertex)
    IN IF cm[1]
       THEN LET e == Edge__init__(vs, es, x_vertex, y_vertex, cm[2])
            IN [vertices |-> e.vertices, edgeObjs |-> e.edgeObjs,
                edges |-> Append(edgs, e.self)]
       ELSE [vertices |-> vs, edgeObjs |-> es, edges |-> edgs]

(********************* MatchingGraph: match selection **********************)
\* vertices = [self.x_vertices, self.y_vertices][adherence]
match_vertices == BoolIndex(<<x_vertices, y_vertices>>, according_to_x_set)

evaluate_match(vs, es, ms, vertex) ==
    LET optimal_match == heaviest_edge(vs, es, vertex)
    IN IF optimal_match.exc # "none"
       THEN [exc |-> optimal_match.exc, matches |-> ms]
       ELSE IF optimal_match.val # None
       THEN [exc |-> "none", matches |-> Append(ms, optimal_match.val)]
       ELSE [exc |-> "none", matches |-> ms]

(*********************** MatchingGraph: properties *************************)
unique_weights == Return({edgeObjs[edges[n]].weight : n \in 1..Len(edges)})

\* First definition of matched_x_vertices in the class body.
matched_x_vertices_1 ==
    Return([n \in 1..Len(matches) |-> edgeObjs[matches[n]].vertex_1])

\* Second definition of matched_x_vertices in the class body.
matched_x_vertices_2 ==
    Return([n \in 1..Len(matches) |-> edgeObjs[matches[n]].vertex_2])

\* The property definitions of the class body, in order: a later binding of
\* a name replaces an earlier one.
PropertyDefs == <<"unique_weights", "matched_x_vertices", "matched_x_vertices",
                  "unmatched_x_vertices", "unmatched_y_vertices">>

hasattr(name) == \E n \in 1..Len(PropertyDefs) : PropertyDefs[n] = name

Binding(name) ==
    CHOOSE n \in 1..Len(PropertyDefs) :
        /\ PropertyDefs[n] = name
        /\ \A m \in 1..Len(PropertyDefs) : PropertyDefs[m] = name => m <= n

\* `vertex in list` for a list of vertices: identity, then Vertex.__eq__.
VertexIn(vertex, list) ==
    \E n \in 1..Len(list) :
        list[n] = vertex \/ Vertex__eq__(vertices, list[n], vertex)

RECURSIVE getattr(_)
unmatched_x_vertices ==
    IF Len(x_vertices) = 0 THEN Return(<<>>)
    ELSE LET matched == getattr("matched_x_vertices")
         IN IF matched.exc # "none" THEN Raise(matched.exc)
            ELSE Return(SelectSeq(x_vertices,
                                  LAMBDA v : ~VertexIn(v, matched.val)))

unmatched_y_vertices ==
    IF Len(y_vertices) = 0 THEN Return(<<>>)
    ELSE LET matched == getattr("matched_y_vertices")
         IN IF matched.exc # "none" THEN Raise(matched.exc)
            ELSE Return(SelectSeq(y_vertices,
                                  LAMBDA v : ~VertexIn(v, matched.val)))

\* graph.<name> for a property name.
getattr(name) ==
    IF ~hasattr(name) THEN Raise("AttributeError")
    ELSE CASE Binding(name) = 1 -> unique_weights
           [] Binding(name) = 2 -> matched_x_vertices_1
           [] Binding(name) = 3 -> matched_x_vertices_2
           [] Binding(name) = 4 -> unmatched_x_vertices
           [] Binding(name) = 5 -> unmatched_y_vertices

AccessorNames == {"unique_weights", "matched_x_vertices", "matched_y_vertices",
                  "unmatched_x_vertices", "unmatched_y_vertices"}

(***************************** initial states ******************************)
NoResult == [op |-> "none", args |-> <<>>, exc |-> "none", val |-> None]

NoOther == [ran |-> FALSE, exc |-> "none", flag |-> FALSE,
            edges |-> <<>>, matches |-> <<>>]

\* MatchingGraph.__init__ up to the start of the initialization lifecycle.
GraphCall ==
    /\ x_set \in ItemSeqs
    /\ y_set \in ItemSeqs
    /\ according_to_x_set \in BOOLEAN
    /\ vertices = <<>>
    /\ edgeObjs = <<>>
    /\ x_vertices = <<>>
    /\ y_vertices = <<>>
    /\ edges = <<>>
    /\ matches = <<>>
    /\ pc = "initialize_vertices"
    /\ i = 1 /\ j = 1 /\ k = 1
    /\ err = "none"
    /\ evaluated = <<>>
    /\ result = NoResult
    /\ other = NoOther

\* Direct use: the caller has created two Vertex objects and no graph.
DirectUse ==
    /\ x_set = <<>>
    /\ y_set = <<>>
    /\ according_to_x_set = TRUE
    /\ \E a \in Items, b \in Items :
           vertices = <<Vertex__init__(a), Vertex__init__(b)>>
    /\ edgeObjs = <<>>
    /\ x_vertices = <<>>
    /\ y_vertices = <<>>
    /\ edges = <<>>
    /\ matches = <<>>
    /\ pc = "direct"
    /\ i = 1 /\ j = 1 /\ k = 1
    /\ err = "none"
    /\ evaluated = <<>>
    /\ result = NoResult
    /\ other = NoOther

Init == GraphCall \/ DirectUse

(************************ MatchingGraph.__init__ ***************************)
\* _initialize_vertices with the default vertex classes and no extractor:
\* one Vertex per item, the x items first.
_initialize_vertices ==
    /\ pc = "initialize_vertices"
    /\ vertices' = [n \in 1..(Len(x_set) + Len(y_set)) |->
                        Vertex__init__(IF n <= Len(x_set) THEN x_set[n]
                                       ELSE y_set[n - Len(x_set)])]
    /\ x_vertices' = [n \in 1..Len(x_set) |-> n]
    /\ y_vertices' = [n \in 1..Len(y_set) |-> Len(x_set) + n]
    /\ pc' = "build_edges"
    /\ i' = 1 /\ j' = 1
    /\ UNCHANGED <<x_set, y_set, according_to_x_set, edgeObjs, edges, matches,
                   k, err, evaluated, result, other>>

\* One iteration of the inner loop of _build_edges.
_build_edges_step ==
    /\ pc = "build_edges"
    /\ i <= Len(a_vertices)
    /\ j <= Len(b_vertices)
    /\ LET pair == PairOf(a_vertices[i], b_vertices[j])
           r == build_pair(vertices, edgeObjs, edges, pair[1], pair[2])
       IN /\ vertices' = r.vertices
          /\ edgeObjs' = r.edgeObjs
          /\ edges' = r.edges
          /\ evaluated' = Append(evaluated, pair)
    /\ IF j < Len(b_vertices)
       THEN i' = i /\ j' = j + 1
       ELSE i' = i + 1 /\ j' = 1
    /\ UNCHANGED <<x_set, y_set, according_to_x_set, x_vertices, y_vertices,
                   matches, pc, k, err, result, other>>

\* Both loops of _build_edges are exhausted; __init__ goes on to match, whose
\* first statement after choosing the vertices is pdb.set_trace().
_build_edges_return ==
    /\ pc = "build_edges"
    /\ (i > Len(a_vertices) \/ Len(b_vertices) = 0)
    /\ pc' = "set_trace"
    /\ UNCHANGED <<x_set, y_set, according_to_x_set, vertices, edgeObjs,
                   x_vertices, y_vertices, edges, matches, i, j, k, err,
                   evaluated, result, other>>

\* The debugger is told to continue.
pdb_continue ==
    /\ pc = "set_trace"
    /\ pc' = "match"
    /\ k' = 1
    /\ UNCHANGED <<x_set, y_set, according_to_x_set, vertices, edgeObjs,
                   x_vertices, y_vertices, edges, matches, i, j, err,
                   evaluated, result, other>>

\* The debugger is told to quit: BdbQuit leaves match and __init__.
pdb_quit ==
    /\ pc = "set_trace"
    /\ pc' = "error"
    /\ err' = "BdbQuit"
    /\ UNCHANGED <<x_set, y_set, according_to_x_set, vertices, edgeObjs,
                   x_vertices, y_vertices, edges, matches, i, j, k,
                   evaluated, result, other>>

\* One iteration of the loop of match: evaluate_match(vertex).
match_step ==
    /\ pc = "match"
    /\ k <= Len(match_vertices)
    /\ LET r == evaluate_match(vertices, edgeObjs, matches, match_vertices[k])
       IN /\ matches' = r.matches
          /\ IF r.exc = "none"
             THEN pc' = pc /\ err' = err /\ k' = k + 1
             ELSE pc' = "error" /\ err' = r.exc /\ k' = k
    /\ UNCHANGED <<x_set, y_set, according_to_x_set, vertices, edgeObjs,
                   x_vertices, y_vertices, edges, i, j, evaluated, result,
                   other>>

\* match returns self.matches and __init__ returns the graph.
match_return ==
    /\ pc = "match"
    /\ k > Len(match_vertices)
    /\ pc' = "done"
    /\ UNCHANGED <<x_set, y_set, according_to_x_set, vertices, edgeObjs,
                   x_vertices, y_vertices, edges, matches, i, j, k, err,
                   evaluated, result, other>>

(************************* the caller of the graph *************************)
\* The caller reads graph.<name>.
Access ==
    /\ pc = "done"
    /\ \E name \in AccessorNames :
           LET r == getattr(name)
           IN result' = [op |-> name, args |-> <<>>, exc |-> r.exc, val |-> r.val]
    /\ UNCHANGED <<x_set, y_set, according_to_x_set, vertices, edgeObjs,
                   x_vertices, y_vertices, edges, matches, pc, i, j, k, err,
                   evaluated, other>>

PosIn(list, ref) ==
    IF \E n \in 1..Len(list) : list[n] = ref
    THEN CHOOSE n \in 1..Len(list) : list[n] = ref
    ELSE 0

\* The (x position, y position) pair an edge joins.
EdgePair(e) == <<PosIn(x_vertices, edgeObjs[e].vertex_1),
                 PosIn(y_vertices, edgeObjs[e].vertex_2)>>

PairsOf(list) == [n \in 1..Len(list) |-> EdgePair(list[n])]

\* The caller constructs a second graph from the same inputs with the other
\* value of according_to_x_set, keeping the outcome of the first.
Reconstruct ==
    /\ pc \in {"done", "error"}
    /\ ~other.ran
    /\ other' = [ran |-> TRUE, exc |-> err, flag |-> according_to_x_set,
                 edges |-> PairsOf(edges), matches |-> PairsOf(matches)]
    /\ according_to_x_set' = ~according_to_x_set
    /\ vertices' = <<>>
    /\ edgeObjs' = <<>>
    /\ x_vertices' = <<>>
    /\ y_vertices' = <<>>
    /\ edges' = <<>>
    /\ matches' = <<>>
    /\ pc' = "initialize_vertices"
    /\ i' = 1 /\ j' = 1 /\ k' = 1
    /\ err' = "none"
    /\ evaluated' = <<>>
    /\ result' = NoResult
    /\ UNCHANGED <<x_set, y_set>>

(*********************** direct use of Vertex and Edge *********************)
\* Edge(vertex_1, vertex_2, weight)
NewEdge ==
    /\ pc = "direct"
    /\ Len(edgeObjs) < MaxEdgeObjs
    /\ \E v1 \in 1..Len(vertices), v2 \in 1..Len(vertices), w \in WeightArgs :
           LET e == Edge__init__(vertices, edgeObjs, v1, v2, w)
           IN /\ vertices' = e.vertices
              /\ edgeObjs' = e.edgeObjs
              /\ result' = [op |-> "Edge", args |-> <<v1, v2, w>>,
                            exc |-> "none", val |-> e.self]
    /\ UNCHANGED <<x_set, y_set, according_to_x_set, x_vertices, y_vertices,
                   edges, matches, pc, i, j, k, err, evaluated, other>>

\* edge.add_weight(weight)
AddWeight ==
    /\ pc = "direct"
    /\ \E e \in 1..Len(edgeObjs), w \in AddAmounts :
           /\ edgeObjs[e].weight + w \in 0..MaxWeight
           /\ edgeObjs' = add_weight(edgeObjs, e, w)
           /\ result' = [op |-> "add_weight", args |-> <<e, w>>,
                         exc |-> "none", val |-> None]
    /\ UNCHANGED <<x_set, y_set, according_to_x_set, vertices, x_vertices,
                   y_vertices, edges, matches, pc, i, j, k, err, evaluated,
                   other>>

\* edge == other, where other is an Edge or None
CompareEq ==
    /\ pc = "direct"
    /\ \E a \in 1..Len(edgeObjs), b \in 0..Len(edgeObjs) :
           LET r == Edge__eq__(vertices, edgeObjs, a, b)
           IN result' = [op |-> "__eq__", args |-> <<a, b>>,
                         exc |-> r.exc, val |-> r.val]
    /\ UNCHANGED <<x_set, y_set, according_to_x_set, vertices, edgeObjs,
                   x_vertices, y_vertices, edges, matches, pc, i, j, k, err,
                   evaluated, other>>

\* edge < other, where other is an Edge or None
CompareLt ==
    /\ pc = "direct"
    /\ \E a \in 1..Len(edgeObjs), b \in 0..Len(edgeObjs) :
           LET r == Edge__lt__(vertices, edgeObjs, a, b)
           IN result' = [op |-> "__lt__", args |-> <<a, b>>,
                         exc |-> r.exc, val |-> r.val]
    /\ UNCHANGED <<x_set, y_set, according_to_x_set, vertices, edgeObjs,
                   x_vertices, y_vertices, edges, matches, pc, i, j, k, err,
                   evaluated, other>>

Next ==
    \/ _initialize_vertices
    \/ _build_edges_step
    \/ _build_edges_return
    \/ pdb_continue
    \/ pdb_quit
    \/ match_step
    \/ match_return
    \/ Access
    \/ Reconstruct
    \/ NewEdge
    \/ AddWeight
    \/ CompareEq
    \/ CompareLt

Spec == Init /\ [][Next]_vars

(******************************* the claims ********************************)
AfterBuild == pc \in {"set_trace", "match", "done", "error"}

\* The side the documentation calls primary: x when according_to_x_set.
DocumentedPrimary == IF according_to_x_set THEN x_vertices ELSE y_vertices

EqualItemPairs ==
    {p \in (1..Len(x_set)) \X (1..Len(y_set)) : x_set[p[1]] = y_set[p[2]]}

\* C1: once edge construction has finished, graph.edges holds exactly one
\* edge for every (x position, y position) pair whose items are equal and
\* no other edge, so their number is the number of such pairs; for every
\* input (duplicates included) and both flag values.
C1_EdgesAreEqualItemPairs ==
    AfterBuild =>
        /\ Len(edges) = Cardinality(EqualItemPairs)
        /\ {EdgePair(edges[n]) : n \in 1..Len(edges)} = EqualItemPairs

C1_Witness ==
    /\ pc = "done"
    /\ Len(x_set) = 2 /\ x_set[1] = x_set[2]
    /\ Len(edges) >= 2
    /\ Len(edges) < Len(x_set) * Len(y_set)

\* C2: when construction is done, matches holds exactly one edge for each
\* vertex of the primary side (x when according_to_x_set, else y) that has
\* an incident edge, in the order of that side, and nothing else.
C2_MatchesFollowDocumentedPrimary ==
    pc = "done" =>
        LET sel == SelectSeq(DocumentedPrimary,
                             LAMBDA v : Len(vertices[v].edges) > 0)
        IN /\ Len(matches) = Len(sel)
           /\ \A n \in 1..Len(sel) : matches[n] \in Range(vertices[sel[n]].edges)

\* C3: when construction is done, matches is no longer than the primary
\* side (x when according_to_x_set, else y), and every matched edge weighs
\* at least as much as every edge incident to its primary-side endpoint.
C3_MatchesBoundedAndHeaviest ==
    pc = "done" =>
        /\ Len(matches) <= Len(DocumentedPrimary)
        /\ \A n \in 1..Len(matches) :
               LET m == edgeObjs[matches[n]]
                   v == IF according_to_x_set THEN m.vertex_1 ELSE m.vertex_2
               IN \A e \in Range(vertices[v].edges) :
                      m.weight >= edgeObjs[e].weight

SameCollection(s, t) ==
    /\ Len(s) = Len(t)
    /\ \A p \in Range(s) \cup Range(t) :
           Cardinality({n \in 1..Len(s) : s[n] = p})
               = Cardinality({n \in 1..Len(t) : t[n] = p})

\* C4: the graph built with one flag value and the graph built from the
\* same inputs with the other flag value have the same collection of
\* matched (x position, y position) pairs (the debugger not being told to
\* quit in either construction).
C4_FlagDoesNotChangeMatches ==
    (other.ran /\ pc \in {"done", "error"}
        /\ err # "BdbQuit" /\ other.exc # "BdbQuit")
    => /\ pc = "done"
       /\ other.exc = "none"
       /\ SameCollection(PairsOf(matches), other.matches)

\* C5: match selection never ends in an error: heaviest_edge returns an
\* incident edge or None for every visited vertex, whatever its number of
\* incident edges, and match runs to completion (the debugger not being
\* told to quit).
C5_MatchNeverRaises == err \in {"none", "BdbQuit"}

\* C6: in every state, every edge held in graph.matches is an element of
\* graph.edges.
C6_MatchesAreGraphEdges ==
    \A n \in 1..Len(matches) : matches[n] \in Range(edges)

C6_Witness ==
    /\ pc = "done"
    /\ Len(matches) >= 2
    /\ Len(edges) >= 2

SameUnorderedPair(a, b) ==
    LET p == _get_parallels(vertices, edgeObjs, a, b) IN p[1] \/ p[2]

\* C7: edge == other returns true exactly when other is an edge joining the
\* same unordered pair of vertices with an equal weight (so Edge(A,B,w) ==
\* Edge(B,A,w) is true), and returns false for a non-edge.
C7_EdgeEqualityIgnoresDirection ==
    result.op = "__eq__" =>
        /\ result.exc = "none"
        /\ result.val =
               (/\ result.args[2] # None
                /\ SameUnorderedPair(result.args[1], result.args[2])
                /\ edgeObjs[result.args[1]].weight
                       = edgeObjs[result.args[2]].weight)

MatchedX == [n \in 1..Len(matches) |-> edgeObjs[matches[n]].vertex_1]

MatchedY == [n \in 1..Len(matches) |-> edgeObjs[matches[n]].vertex_2]

\* C8: each of the four accessors returns without error: matched_x_vertices
\* the x-side endpoints of matches, matched_y_vertices the y-side
\* endpoints, unmatched_x_vertices the x vertices that are no x-side
\* endpoint of a match and unmatched_y_vertices the y vertices that are no
\* y-side endpoint of a match.
C8_AccessorsReturnEndpoints ==
    (result.op \in AccessorNames \ {"unique_weights"}) =>
        /\ result.exc = "none"
        /\ result.val =
               CASE result.op = "matched_x_vertices" -> MatchedX
                 [] result.op = "matched_y_vertices" -> MatchedY
                 [] result.op = "unmatched_x_vertices" ->
                        SelectSeq(x_vertices, LAMBDA v : v \notin Range(MatchedX))
                 [] result.op = "unmatched_y_vertices" ->
                        SelectSeq(y_vertices, LAMBDA v : v \notin Range(MatchedY))

DocumentedOrder ==
    LET nx == Len(x_vertices)
        ny == Len(y_vertices)
    IN [n \in 1..(nx * ny) |->
           IF according_to_x_set
           THEN <<x_vertices[((n - 1) % nx) + 1], y_vertices[((n - 1) \div nx) + 1]>>
           ELSE <<x_vertices[((n - 1) \div ny) + 1], y_vertices[((n - 1) % ny) + 1]>>]

EvalIndex(e) ==
    PosIn(evaluated, <<edgeObjs[e].vertex_1, edgeObjs[e].vertex_2>>)

\* C10: edge construction evaluates every (x, y) pair exactly once, the
\* outer loop over the non-primary side and the inner loop over the primary
\* side (primary is x when according_to_x_set, else y); graph.edges is in
\* that order of evaluation; and both flag values give an edge to the same
\* set of (x position, y position) pairs.
C10_EvaluationOrder ==
    AfterBuild =>
        /\ evaluated = DocumentedOrder
        /\ \A m \in 1..Len(edges), n \in 1..Len(edges) :
               m < n => EvalIndex(edges[m]) < EvalIndex(edges[n])
        /\ other.ran => Range(PairsOf(edges)) = Range(other.edges)

====
